---- MODULE Spec2Model ----
(***************************************************************************)
(* rsfs disk backend (src/disk/fs.rs): every wrapper type is a one-field   *)
(* tuple struct around a std::fs value and every method forwards to it.    *)
(* The model has two layers:                                               *)
(*   - rs_fs_* / rs_* operators: what the forwarded std::fs call does on a *)
(*     Unix filesystem (path resolution, inodes, open file descriptions);  *)
(*   - FS_*, OpenOptions_*, DirBuilder_*, File_*, ReadDir_*, DirEntry_*,   *)
(*     Metadata_*: the adapter's methods, translated from fs.rs.           *)
(* Paths are relative paths of one or more components below the working    *)
(* directory, which always exists and is never itself an operand.  There   *)
(* are no symbolic or hard links and no permission checks (the mode bits   *)
(* are stored and reported only).  open, read_dir and remove_dir_all fail  *)
(* with EMFILE when the process holds as many descriptors as it may.       *)
(* The working directory is on ext4 or on tmpfs: the two differ in the     *)
(* order of a directory listing, in the size a directory reports and in    *)
(* the offsets a directory descriptor can be moved to.                     *)
(***************************************************************************)
EXTENDS Integers, Sequences, FiniteSets, TLC

VARIABLES os, opts, dirb, ents, hist, last, calls

vars == <<os, opts, dirb, ents, hist, last, calls>>

\* ---------------------------------------------------------------- bounds
Names == {"a", "b"}
MaxDepth == 3
MaxEntries == 3
MaxHandles == 2
MaxFileLen == 2
MaxIters == 2
MaxHeld == 2
MaxCalls == 2

Modes == {438, 384}          \* 0o666 (the std default for files), 0o600
DirModes == {511, 448}       \* 0o777 (the std default for directories), 0o700

RECURSIVE PathsUpTo(_)
PathsUpTo(n) ==
    IF n = 0 THEN {<<>>}
    ELSE LET s == PathsUpTo(n - 1)
         IN  s \cup {Append(p, x) : p \in {q \in s : Len(q) = n - 1}, x \in Names}

\* The operand paths: every directory on them lies on the spine a/a/...
Spine == "a"
Paths == {p \in PathsUpTo(MaxDepth) \ {<<>>} : \A i \in 1..(Len(p) - 1) : p[i] = Spine}

\* ---------------------------------------------------------------- io::Result
Unit == [unit |-> TRUE]
Ok(v) == [ok |-> TRUE, val |-> v]
Err(k) == [ok |-> FALSE, err |-> k]

\* Result::map(f) with f a tuple-struct constructor: Ok(v) becomes Ok(W(v)),
\* an Err is passed through untouched.
MapNewtype(r) == IF r.ok THEN Ok([f0 |-> r.val]) ELSE r

\* ---------------------------------------------------------------- paths
Prefix(p, i) == SubSeq(p, 1, i)
Parent(p) == SubSeq(p, 1, Len(p) - 1)
Last(p) == p[Len(p)]
IsPrefix(p, q) == Len(p) <= Len(q) /\ SubSeq(q, 1, Len(p)) = p
IsProperPrefix(p, q) == Len(p) < Len(q) /\ SubSeq(q, 1, Len(p)) = p
SetMin(S) == CHOOSE x \in S : \A y \in S : x <= y

Exists(o, p) == p \in DOMAIN o.tree
KindAt(o, p) == IF p = <<>> THEN "dir"
                ELSE IF Exists(o, p) THEN o.inodes[o.tree[p]].kind ELSE "none"
IsDirAt(o, p) == KindAt(o, p) = "dir"
IsFileAt(o, p) == KindAt(o, p) = "file"
Children(o, p) == {q \in DOMAIN o.tree : Len(q) = Len(p) + 1 /\ IsPrefix(p, q)}
Descendants(o, p) == {q \in DOMAIN o.tree : IsProperPrefix(p, q)}

\* The path a directory inode is linked at (none once it has been removed).
PathsOfIno(o, i) == {p \in DOMAIN o.tree : o.tree[p] = i}

\* The names in a directory in the order the filesystem's directory stream
\* returns them.  ext4 returns them by the hash of the name, an order fixed
\* when the filesystem is made (o.order); tmpfs returns the entry linked last
\* first (the directory inode's dents).
ListingOf(o, i) ==
    LET here == {Last(p) : p \in UNION {Children(o, q) : q \in PathsOfIno(o, i)}}
    IN  IF o.fstype = "tmpfs" THEN o.inodes[i].dents
        ELSE SelectSeq(o.order, LAMBDA n : n \in here)

\* Kernel path walk of every component but the last: "" when each is an
\* existing directory, else the errno of the first one that is not (ENOENT
\* for a missing component, ENOTDIR for one that is not a directory).
ResolveParent(o, p) ==
    LET bad == {i \in 1..(Len(p) - 1) : ~IsDirAt(o, Prefix(p, i))}
    IN  IF bad = {} THEN ""
        ELSE IF Exists(o, Prefix(p, SetMin(bad))) THEN "NotADirectory"
        ELSE "NotFound"

\* ---------------------------------------------------------------- inodes
AllocIno(o) ==
    CHOOSE i \in 1..(Cardinality(DOMAIN o.inodes) + 1) :
        /\ i \notin DOMAIN o.inodes
        /\ \A j \in 1..(i - 1) : j \in DOMAIN o.inodes

Referenced(o) ==
    {o.tree[p] : p \in DOMAIN o.tree}
        \cup {o.fds[h].ino : h \in {k \in DOMAIN o.fds : o.fds[k].open}}
        \cup {o.dirs[d].ino : d \in {k \in DOMAIN o.dirs : o.dirs[k].open}}

\* The process has one descriptor table, shared by Files and ReadDirs and
\* limited by RLIMIT_NOFILE: o.nofile is how many of them the program may hold
\* at once (the limit less stdin, stdout and stderr).
Closed == [open |-> FALSE]
OpenCount(o) ==
    Cardinality({h \in DOMAIN o.fds : o.fds[h].open})
        + Cardinality({d \in DOMAIN o.dirs : o.dirs[d].open})
DefaultNoFile == 1021

\* The slot a new File or ReadDir takes in the model's table t, and t with v
\* placed there.
NextSlot(t) ==
    CHOOSE h \in 1..(Cardinality(DOMAIN t) + 1) :
        /\ h \notin DOMAIN t \/ ~t[h].open
        /\ \A k \in 1..(h - 1) : k \in DOMAIN t /\ t[k].open
Place(t, h, v) == [k \in (DOMAIN t) \cup {h} |-> IF k = h THEN v ELSE t[k]]

\* An inode lives while a directory entry or an open descriptor refers to it.
Collect(o) ==
    [o EXCEPT !.inodes = [i \in (DOMAIN o.inodes) \cap Referenced(o) |-> o.inodes[i]]]

\* tmpfs keeps the entries of a directory in the order they were linked into
\* it, the last one first: Push puts the name of p in front of its parent's
\* entries, Pull takes it out.  (The working directory is never listed; its
\* order is not kept.)
Push(o, p) ==
    IF o.fstype = "tmpfs" /\ Len(p) > 1
    THEN [o EXCEPT !.inodes[o.tree[Parent(p)]].dents = <<Last(p)>> \o @]
    ELSE o
Pull(o, p) ==
    IF o.fstype = "tmpfs" /\ Len(p) > 1
    THEN [o EXCEPT !.inodes[o.tree[Parent(p)]].dents = SelectSeq(@, LAMBDA n : n # Last(p))]
    ELSE o

Link(o, p, node) ==
    LET i == AllocIno(o)
    IN  Push([o EXCEPT !.tree = [q \in (DOMAIN o.tree) \cup {p} |->
                                     IF q = p THEN i ELSE o.tree[q]],
                       !.inodes = [j \in (DOMAIN o.inodes) \cup {i} |->
                                     IF j = i THEN node ELSE o.inodes[j]]], p)

Unlink(o, p) ==
    Collect([Pull(o, p) EXCEPT !.tree = [q \in (DOMAIN o.tree) \ {p} |-> o.tree[q]]])

\* The permission bits an entry is created with: the mode the caller asked
\* for, less the bits of the process's umask.
RECURSIVE ClearBits(_, _)
ClearBits(m, u) ==
    IF m = 0 THEN 0
    ELSE 2 * ClearBits(m \div 2, u \div 2) + (IF m % 2 = 1 /\ u % 2 = 0 THEN 1 ELSE 0)

\* The file-type bits of st_mode.  The st_size of a directory: on ext4 one
\* block, and 0 once rmdir has removed it; on tmpfs BOGO_DIRENT_SIZE bytes
\* for each entry, "." and ".." included.
S_IFDIR == 16384
S_IFREG == 32768
DirBlock == 4096
BOGO_DIRENT_SIZE == 20

\* rmdir(2) of the empty directory at p.  An inode that descriptors keep
\* alive is marked removed: ext4 sets its size to 0.  (A directory that a
\* rename replaces is unlinked without that.)
Rmdir(o, p) == Unlink([o EXCEPT !.inodes[o.tree[p]].removed = TRUE], p)

DirSize(o, n) ==
    IF o.fstype = "tmpfs" THEN (2 + Len(n.dents)) * BOGO_DIRENT_SIZE
    ELSE IF n.removed THEN 0 ELSE DirBlock

\* What stat reports of an entry: st_mode is the file type together with the
\* permission bits, st_size the byte length of a regular file.
Stat(kind, size, perm) ==
    [is_dir |-> kind = "dir", is_file |-> kind = "file", len |-> size,
     mode |-> (IF kind = "dir" THEN S_IFDIR ELSE S_IFREG) + perm]

StatOf(o, i) ==
    LET n == o.inodes[i]
    IN  Stat(n.kind, IF n.kind = "dir" THEN DirSize(o, n) ELSE Len(n.data), n.perm)

\* ---------------------------------------------------------------- std::fs
rs_fs_metadata(o, p) ==
    LET e == ResolveParent(o, p)
    IN  [os |-> o,
         res |-> IF e # "" THEN Err(e)
                 ELSE IF ~Exists(o, p) THEN Err("NotFound")
                 ELSE Ok(StatOf(o, o.tree[p]))]

rs_mkdir(o, p, mode) ==
    LET e == ResolveParent(o, p)
    IN  IF e # "" THEN [os |-> o, res |-> Err(e)]
        ELSE IF Exists(o, p) THEN [os |-> o, res |-> Err("AlreadyExists")]
        ELSE [os |-> Link(o, p, [kind |-> "dir", data |-> <<>>, dents |-> <<>>, removed |-> FALSE,
                               perm |-> ClearBits(mode, o.umask)]),
              res |-> Ok(Unit)]

\* std::fs::DirBuilder::create_dir_all
RECURSIVE rs_create_dir_all(_, _, _)
rs_create_dir_all(o, p, mode) ==
    IF p = <<>> THEN [os |-> o, res |-> Ok(Unit)]
    ELSE LET first == rs_mkdir(o, p, mode)
         IN  IF first.res.ok THEN first
             ELSE IF first.res.err # "NotFound"
             THEN IF IsDirAt(o, p) THEN [os |-> o, res |-> Ok(Unit)] ELSE first
             ELSE LET up == rs_create_dir_all(o, Parent(p), mode)
                  IN  IF ~up.res.ok THEN up
                      ELSE LET second == rs_mkdir(up.os, p, mode)
                           IN  IF second.res.ok THEN second
                               ELSE IF IsDirAt(up.os, p)
                               THEN [os |-> up.os, res |-> Ok(Unit)]
                               ELSE second

rs_DirBuilder_create(b, o, p) ==
    IF b.recursive THEN rs_create_dir_all(o, p, b.mode) ELSE rs_mkdir(o, p, b.mode)

rs_fs_remove_file(o, p) ==
    LET e == ResolveParent(o, p)
    IN  IF e # "" THEN [os |-> o, res |-> Err(e)]
        ELSE IF ~Exists(o, p) THEN [os |-> o, res |-> Err("NotFound")]
        ELSE IF IsDirAt(o, p) THEN [os |-> o, res |-> Err("IsADirectory")]
        ELSE [os |-> Unlink(o, p), res |-> Ok(Unit)]

rs_fs_remove_dir(o, p) ==
    LET e == ResolveParent(o, p)
    IN  IF e # "" THEN [os |-> o, res |-> Err(e)]
        ELSE IF ~Exists(o, p) THEN [os |-> o, res |-> Err("NotFound")]
        ELSE IF ~IsDirAt(o, p) THEN [os |-> o, res |-> Err("NotADirectory")]
        ELSE IF Children(o, p) # {} THEN [os |-> o, res |-> Err("DirectoryNotEmpty")]
        ELSE [os |-> Rmdir(o, p), res |-> Ok(Unit)]

\* std's walk: open the directory at p (one descriptor for every level of
\* the walk, `held` of them by the levels above), unlink each file and walk
\* each directory in it in listing order, then rmdir p.  The first error ends
\* the walk; what was removed before it stays removed.
RECURSIVE RemoveTree(_, _, _)
RECURSIVE RemoveChildren(_, _, _, _)
RemoveTree(o, p, held) ==
    IF OpenCount(o) + held >= o.nofile THEN [os |-> o, res |-> Err("Uncategorized")]
    ELSE LET walked == RemoveChildren(o, p, ListingOf(o, o.tree[p]), held + 1)
         IN  IF walked.res.ok THEN [os |-> Rmdir(walked.os, p), res |-> Ok(Unit)]
             ELSE walked
RemoveChildren(o, p, names, held) ==
    IF names = <<>> THEN [os |-> o, res |-> Ok(Unit)]
    ELSE LET q == Append(p, Head(names))
             one == IF IsDirAt(o, q) THEN RemoveTree(o, q, held)
                    ELSE [os |-> Unlink(o, q), res |-> Ok(Unit)]
         IN  IF one.res.ok THEN RemoveChildren(one.os, p, Tail(names), held) ELSE one

\* lstat(p) first, then the walk, whose opening of p fails on a regular file.
rs_fs_remove_dir_all(o, p) ==
    LET e == ResolveParent(o, p)
    IN  IF e # "" THEN [os |-> o, res |-> Err(e)]
        ELSE IF ~Exists(o, p) THEN [os |-> o, res |-> Err("NotFound")]
        ELSE IF OpenCount(o) >= o.nofile THEN [os |-> o, res |-> Err("Uncategorized")]
        ELSE IF ~IsDirAt(o, p) THEN [os |-> o, res |-> Err("NotADirectory")]
        ELSE RemoveTree(o, p, 0)

\* rename(2): the entry at `from`, with everything below it, moves to `to`,
\* replacing a file or an empty directory of the same kind found there.
MovedTree(o, from, to) ==
    LET gone == {q \in DOMAIN o.tree : IsPrefix(from, q) \/ IsPrefix(to, q)}
        moved == {q \in DOMAIN o.tree : IsPrefix(from, q)}
        dest(q) == to \o SubSeq(q, Len(from) + 1, Len(q))
        back(r) == from \o SubSeq(r, Len(to) + 1, Len(r))
    IN  [r \in ((DOMAIN o.tree) \ gone) \cup {dest(q) : q \in moved} |->
            IF IsPrefix(to, r) THEN o.tree[back(r)] ELSE o.tree[r]]

rs_fs_rename(o, from, to) ==
    LET e1 == ResolveParent(o, from)
        e2 == ResolveParent(o, to)
        fail(k) == [os |-> o, res |-> Err(k)]
    IN  IF e1 # "" THEN fail(e1)
        ELSE IF e2 # "" THEN fail(e2)
        ELSE IF ~Exists(o, from) THEN fail("NotFound")
        ELSE IF IsProperPrefix(from, to) THEN fail("InvalidInput")
        ELSE IF IsProperPrefix(to, from) THEN fail("DirectoryNotEmpty")
        ELSE IF from = to THEN [os |-> o, res |-> Ok(Unit)]
        ELSE IF Exists(o, to) /\ IsDirAt(o, from) /\ ~IsDirAt(o, to)
        THEN fail("NotADirectory")
        ELSE IF Exists(o, to) /\ ~IsDirAt(o, from) /\ IsDirAt(o, to)
        THEN fail("IsADirectory")
        ELSE IF Exists(o, to) /\ Children(o, to) # {}
        THEN fail("DirectoryNotEmpty")
        ELSE [os |-> Collect([Push(Pull(Pull(o, from), to), to)
                                  EXCEPT !.tree = MovedTree(o, from, to)]),
              res |-> Ok(Unit)]

\* ---------------------------------------------------------------- std::fs::OpenOptions
rs_OpenOptions_new ==
    [read |-> FALSE, write |-> FALSE, append |-> FALSE, truncate |-> FALSE,
     create |-> FALSE, create_new |-> FALSE, mode |-> 438]

rs_OpenOptions_read(oo, b) == [oo EXCEPT !.read = b]
rs_OpenOptions_write(oo, b) == [oo EXCEPT !.write = b]
rs_OpenOptions_append(oo, b) == [oo EXCEPT !.append = b]
rs_OpenOptions_truncate(oo, b) == [oo EXCEPT !.truncate = b]
rs_OpenOptions_create(oo, b) == [oo EXCEPT !.create = b]
rs_OpenOptions_create_new(oo, b) == [oo EXCEPT !.create_new = b]
rs_OpenOptions_mode(oo, m) == [oo EXCEPT !.mode = m]

\* std's get_access_mode and get_creation_mode: the flag combinations std
\* rejects with EINVAL before any system call.
AccessInvalid(oo) == ~oo.read /\ ~oo.write /\ ~oo.append
CreationInvalid(oo) ==
    \/ ~oo.write /\ ~oo.append /\ (oo.truncate \/ oo.create \/ oo.create_new)
    \/ oo.append /\ oo.truncate /\ ~oo.create_new

NewFd(oo, i) ==
    [open |-> TRUE, ino |-> i, pos |-> 0, far |-> FALSE, r |-> oo.read,
     w |-> oo.write \/ oo.append, a |-> oo.append]

rs_OpenOptions_open(oo, o, p) ==
    LET e == ResolveParent(o, p)
        fail(k) == [os |-> o, res |-> Err(k)]
        h == NextSlot(o.fds)
        opened(o2, i) == [os |-> [o2 EXCEPT !.fds = Place(@, h, NewFd(oo, i))],
                          res |-> Ok([fd |-> h])]
    IN  IF AccessInvalid(oo) \/ CreationInvalid(oo) THEN fail("InvalidInput")
        ELSE IF OpenCount(o) >= o.nofile THEN fail("Uncategorized")
        ELSE IF e # "" THEN fail(e)
        ELSE IF Exists(o, p)
        THEN IF oo.create_new THEN fail("AlreadyExists")
             ELSE IF IsDirAt(o, p)
             THEN IF oo.write \/ oo.append THEN fail("IsADirectory")
                  ELSE opened(o, o.tree[p])
             ELSE IF oo.truncate
             THEN opened([o EXCEPT !.inodes[o.tree[p]].data = <<>>], o.tree[p])
             ELSE opened(o, o.tree[p])
        ELSE IF oo.create \/ oo.create_new
        THEN LET o2 == Link(o, p, [kind |-> "file", data |-> <<>>, dents |-> <<>>,
                                   removed |-> FALSE,
                                   perm |-> ClearBits(oo.mode, o.umask)])
             IN  opened(o2, o2.tree[p])
        ELSE fail("NotFound")

\* ---------------------------------------------------------------- std::fs::File
rs_File_metadata(f, o) == [os |-> o, res |-> Ok(StatOf(o, o.fds[f.fd].ino))]

Min2(x, y) == IF x <= y THEN x ELSE y
Max2(x, y) == IF x >= y THEN x ELSE y

rs_File_read(f, o, n) ==
    LET d == o.fds[f.fd]
        node == o.inodes[d.ino]
        k == Max2(0, Min2(n, Len(node.data) - d.pos))
    IN  IF ~d.r THEN [os |-> o, res |-> Err("Uncategorized")]
        ELSE IF node.kind = "dir" THEN [os |-> o, res |-> Err("IsADirectory")]
        ELSE [os |-> [o EXCEPT !.fds[f.fd].pos = d.pos + k],
              res |-> Ok([n |-> k, bytes |-> SubSeq(node.data, d.pos + 1, d.pos + k)])]

\* write(2) at offset `at`: a gap between the end of the file and `at` reads
\* as zero bytes.
Overwrite(data, at, buf) ==
    LET newlen == Max2(Len(data), at + Len(buf))
    IN  [i \in 1..newlen |->
            IF i > at /\ i <= at + Len(buf) THEN buf[i - at]
            ELSE IF i <= Len(data) THEN data[i] ELSE 0]

rs_File_write(f, o, buf) ==
    LET d == o.fds[f.fd]
        node == o.inodes[d.ino]
        at == IF d.a THEN Len(node.data) ELSE d.pos
    IN  IF ~d.w THEN [os |-> o, res |-> Err("Uncategorized")]
        ELSE IF buf = <<>> THEN [os |-> o, res |-> Ok([n |-> 0])]
        ELSE [os |-> [o EXCEPT !.inodes[d.ino].data = Overwrite(node.data, at, buf),
                               !.fds[f.fd].pos = at + Len(buf)],
              res |-> Ok([n |-> Len(buf)])]

rs_File_flush(f, o) == [os |-> o, res |-> Ok(Unit)]

\* An offset k below i64::MAX, the end lseek(2) reports for a directory of
\* ext4 (hashed): such offsets are beyond the integers of the checker and are
\* written by their distance from that end.  A descriptor there has far set
\* and that distance in pos.  A directory that rmdir removed is no longer
\* hashed: it ends at 0, and from a far offset only Current(0) is valid.  A
\* directory of tmpfs has no end to seek from.
FromMax(k) == [i64_max_minus |-> k]

\* lseek(2); whence is "Start", "Current" or "End".  The offset must end up in
\* 0..i64::MAX, else EINVAL.
rs_File_seek(f, o, whence, off) ==
    LET d == o.fds[f.fd]
        node == o.inodes[d.ino]
        hashed == node.kind = "dir" /\ o.fstype = "ext4" /\ ~node.removed
        fail == [os |-> o, res |-> Err("InvalidInput")]
        near(n) == IF n < 0 THEN fail
                   ELSE [os |-> [o EXCEPT !.fds[f.fd].pos = n, !.fds[f.fd].far = FALSE],
                         res |-> Ok([n |-> n])]
        far(k) == IF k < 0 THEN fail
                  ELSE [os |-> [o EXCEPT !.fds[f.fd].pos = k, !.fds[f.fd].far = TRUE],
                        res |-> Ok([n |-> FromMax(k)])]
    IN  IF whence = "Start" THEN near(off)
        ELSE IF whence = "Current"
        THEN IF ~d.far THEN near(d.pos + off)
             ELSE IF hashed THEN far(d.pos - off)
             ELSE IF off = 0 THEN [os |-> o, res |-> Ok([n |-> FromMax(d.pos)])]
             ELSE fail
        ELSE IF hashed THEN far(0 - off)
        ELSE IF node.kind = "dir" /\ o.fstype = "tmpfs" THEN fail
        ELSE near(Len(node.data) + off)

rs_File_drop(f, o) == Collect([o EXCEPT !.fds[f.fd] = Closed])

\* ---------------------------------------------------------------- std::fs::ReadDir
rs_fs_read_dir(o, p) ==
    LET e == ResolveParent(o, p)
        fail(k) == [os |-> o, res |-> Err(k)]
        d == NextSlot(o.dirs)
    IN  IF OpenCount(o) >= o.nofile THEN fail("Uncategorized")
        ELSE IF e # "" THEN fail(e)
        ELSE IF ~Exists(o, p) THEN fail("NotFound")
        ELSE IF ~IsDirAt(o, p) THEN fail("NotADirectory")
        ELSE [os |-> [o EXCEPT !.dirs = Place(@, d,
                        [open |-> TRUE, root |-> p, ino |-> o.tree[p],
                         started |-> FALSE, buf |-> <<>>,
                         iter |-> TRUE, entries |-> 0])],
              res |-> Ok([dir |-> d])]

\* A ReadDir and every DirEntry it has yielded share the directory stream
\* (std keeps it in an Arc): iter tells that the ReadDir is alive, entries
\* how many of its DirEntry values are.  The stream is closed, and its
\* descriptor given back, when the last of them is dropped.
Release(o, d) ==
    IF o.dirs[d].iter \/ o.dirs[d].entries > 0 THEN o
    ELSE Collect([o EXCEPT !.dirs[d] = Closed])

\* readdir(3): the first call fills the stream's buffer with the directory's
\* entries ("." and ".." are skipped by std); each call hands out one, as a
\* DirEntry: the stream it came from and the name.
rs_ReadDir_next(it, o) ==
    LET s == o.dirs[it.dir]
        buf == IF s.started THEN s.buf ELSE ListingOf(o, s.ino)
    IN  IF buf = <<>>
        THEN [os |-> [o EXCEPT !.dirs[it.dir].started = TRUE,
                               !.dirs[it.dir].buf = <<>>],
              res |-> [some |-> FALSE]]
        ELSE [os |-> [o EXCEPT !.dirs[it.dir].started = TRUE,
                               !.dirs[it.dir].buf = Tail(buf),
                               !.dirs[it.dir].entries = @ + 1],
              res |-> [some |-> TRUE,
                       item |-> Ok([dir |-> it.dir, name |-> Head(buf)])]]

rs_ReadDir_drop(it, o) == Release([o EXCEPT !.dirs[it.dir].iter = FALSE], it.dir)

\* path() joins the path read_dir was given and the name.
rs_DirEntry_path(e, o) == Append(o.dirs[e.dir].root, e.name)
rs_DirEntry_file_name(e) == e.name
\* fstatat(2) of the name, relative to the descriptor of the stream.
rs_DirEntry_metadata(e, o) ==
    LET at == {Append(q, e.name) : q \in PathsOfIno(o, o.dirs[e.dir].ino)}
                  \cap DOMAIN o.tree
    IN  [os |-> o,
         res |-> IF at = {} THEN Err("NotFound")
                 ELSE Ok(StatOf(o, o.tree[CHOOSE p \in at : TRUE]))]
rs_DirEntry_drop(e, o) == Release([o EXCEPT !.dirs[e.dir].entries = @ - 1], e.dir)

\* ---------------------------------------------------------------- std::fs::Metadata
rs_Metadata_is_dir(m) == m.is_dir
rs_Metadata_is_file(m) == m.is_file
rs_Metadata_len(m) == m.len
\* permissions() is a Permissions holding st_mode, which PermissionsExt::mode
\* gives back whole.
rs_Metadata_permissions(m) == [st_mode |-> m.mode]
rs_Permissions_mode(pm) == pm.st_mode

\* ---------------------------------------------------------------- std::fs::DirBuilder
rs_DirBuilder_new == [recursive |-> FALSE, mode |-> 511]
rs_DirBuilder_recursive(b, r) == [b EXCEPT !.recursive = r]
rs_DirBuilder_mode(b, m) == [b EXCEPT !.mode = m]

\* ================================================================ fs.rs
\* Result<T>::map(Wrapper) applied to the result of a forwarded call.
Forward(r) == [os |-> r.os, res |-> MapNewtype(r.res)]

\* Faulty adapters: each one forwards wrongly in one way. The properties
\* below are expected to reject every one of them.
OpenOptions_create_new_AsCreate(self, b) ==
    [self EXCEPT !.f0 = rs_OpenOptions_create(self.f0, b)]
OpenOptions_append_AsWrite(self, b) ==
    [self EXCEPT !.f0 = rs_OpenOptions_write(self.f0, b)]
File_metadata_LenDropped(self, o) ==
    LET r == rs_File_metadata(self.f0, o)
    IN  [os |-> r.os,
         res |-> IF r.res.ok THEN Ok([f0 |-> [r.res.val EXCEPT !.len = 0]]) ELSE r.res]
File_flush_Rewinding(self, o) ==
    [os |-> [o EXCEPT !.fds[self.f0.fd].pos = 0], res |-> Ok(Unit)]
DirBuilder_create_NeverAll(self, o, p) == rs_mkdir(o, p, self.f0.mode)
DirBuilder_create_AlwaysAll(self, o, p) == rs_create_dir_all(o, p, self.f0.mode)
ReadDir_next_Skipping(self, o) ==
    LET r1 == rs_ReadDir_next(self.f0, o)
        o1 == IF r1.res.some THEN rs_DirEntry_drop(r1.res.item.val, r1.os) ELSE r1.os
        r == rs_ReadDir_next(self.f0, o1)
    IN  [os |-> r.os,
         res |-> IF r.res.some
                 THEN [some |-> TRUE, item |-> MapNewtype(r.res.item)]
                 ELSE r.res]
FS_rename_Swapped(o, from, to) == rs_fs_rename(o, to, from)
FS_remove_dir_AsAll(o, p) == rs_fs_remove_dir_all(o, p)
FS_remove_file_Quiet(o, p) == [os |-> rs_fs_remove_file(o, p).os, res |-> Ok(Unit)]

\* impl fs::Metadata for Metadata
Metadata_is_dir(m) == rs_Metadata_is_dir(m.f0)
Metadata_is_file(m) == rs_Metadata_is_file(m.f0)
Metadata_len(m) == rs_Metadata_len(m.f0)
Metadata_permissions(m) == rs_Permissions_mode(rs_Metadata_permissions(m.f0))

\* impl fs::OpenOptions for OpenOptions
OpenOptions_read(self, b) == [self EXCEPT !.f0 = rs_OpenOptions_read(self.f0, b)]
OpenOptions_write(self, b) == [self EXCEPT !.f0 = rs_OpenOptions_write(self.f0, b)]
OpenOptions_append(self, b) == [self EXCEPT !.f0 = rs_OpenOptions_append(self.f0, b)]
OpenOptions_truncate(self, b) == [self EXCEPT !.f0 = rs_OpenOptions_truncate(self.f0, b)]
OpenOptions_create(self, b) == [self EXCEPT !.f0 = rs_OpenOptions_create(self.f0, b)]
OpenOptions_create_new(self, b) ==
    [self EXCEPT !.f0 = rs_OpenOptions_create_new(self.f0, b)]
OpenOptions_mode(self, m) == [self EXCEPT !.f0 = rs_OpenOptions_mode(self.f0, m)]
OpenOptions_open(self, o, p) == Forward(rs_OpenOptions_open(self.f0, o, p))

\* impl fs::File, Read, Write, Seek for File
File_metadata(self, o) == Forward(rs_File_metadata(self.f0, o))
File_read(self, o, n) == rs_File_read(self.f0, o, n)
File_write(self, o, buf) == rs_File_write(self.f0, o, buf)
File_flush(self, o) == [os |-> o, res |-> Ok(Unit)]
File_seek(self, o, whence, off) == rs_File_seek(self.f0, o, whence, off)
File_drop(self, o) == rs_File_drop(self.f0, o)

\* impl fs::DirBuilder for DirBuilder
DirBuilder_recursive(self, r) == [self EXCEPT !.f0 = rs_DirBuilder_recursive(self.f0, r)]
DirBuilder_mode(self, m) == [self EXCEPT !.f0 = rs_DirBuilder_mode(self.f0, m)]
DirBuilder_create(self, o, p) == rs_DirBuilder_create(self.f0, o, p)

\* impl fs::DirEntry for DirEntry
DirEntry_path(self, o) == rs_DirEntry_path(self.f0, o)
DirEntry_metadata(self, o) == Forward(rs_DirEntry_metadata(self.f0, o))
DirEntry_file_name(self) == rs_DirEntry_file_name(self.f0)
DirEntry_drop(self, o) == rs_DirEntry_drop(self.f0, o)

\* impl Iterator for ReadDir: Option::map over Result::map(DirEntry)
ReadDir_next(self, o) ==
    LET r == rs_ReadDir_next(self.f0, o)
    IN  [os |-> r.os,
         res |-> IF r.res.some
                 THEN [some |-> TRUE, item |-> MapNewtype(r.res.item)]
                 ELSE r.res]
ReadDir_drop(self, o) == rs_ReadDir_drop(self.f0, o)

\* impl fs::GenFS for FS
FS_metadata(o, p) == Forward(rs_fs_metadata(o, p))
FS_read_dir(o, p) == Forward(rs_fs_read_dir(o, p))
FS_rename(o, from, to) == rs_fs_rename(o, from, to)
FS_remove_dir(o, p) == rs_fs_remove_dir(o, p)
FS_remove_dir_all(o, p) == rs_fs_remove_dir_all(o, p)
FS_remove_file(o, p) == rs_fs_remove_file(o, p)
FS_new_openopts == [f0 |-> rs_OpenOptions_new]
FS_new_dirbuilder == [f0 |-> rs_DirBuilder_new]

\* The File and ReadDir values the program holds: one per open descriptor.
FileOf(h) == [f0 |-> [fd |-> h]]
ReadDirOf(d) == [f0 |-> [dir |-> d]]

\* ================================================================ state machine
\* os: the filesystem with the open descriptors; opts, dirb: the program's
\* OpenOptions and DirBuilder values; ents: the DirEntry values the program
\* holds; hist: per directory stream, the names it has yielded so far; last:
\* the last call and its result; calls: the number of calls made, counted up
\* to MaxCalls.
WithinBounds(o) ==
    /\ Cardinality(DOMAIN o.tree) <= MaxEntries
    /\ \A p \in DOMAIN o.tree : Len(p) <= MaxDepth
    /\ \A i \in DOMAIN o.inodes : Len(o.inodes[i].data) <= MaxFileLen
    /\ DOMAIN o.fds = 1..MaxHandles /\ DOMAIN o.dirs = 1..MaxIters
    /\ \A h \in DOMAIN o.fds : o.fds[h].open => o.fds[h].pos <= MaxFileLen

NoEnts == [k \in 1..MaxHeld |-> Closed]
NoHist == [yielded |-> <<>>, clean |-> TRUE, done |-> FALSE]
NoHists == [d \in 1..MaxIters |-> NoHist]
Dirty == [yielded |-> <<>>, clean |-> FALSE, done |-> FALSE]

\* A listing stays clean while the directory it reads keeps the same entries:
\* no more is recorded of one that does not.  The record of a stream ends
\* when the stream is closed.
HistKeep(o2) ==
    [d \in DOMAIN hist |->
        IF ~(os.dirs[d].open /\ o2.dirs[d].open) THEN NoHist
        ELSE IF hist[d].clean
                /\ ListingOf(os, os.dirs[d].ino) = ListingOf(o2, os.dirs[d].ino)
        THEN hist[d]
        ELSE Dirty]

\* What the last call was and returned; `pre` notes what its path operand
\* named just before the call, and the size of what its second path operand
\* named (-1: nothing).
NoArg == [none |-> TRUE]
NoPre == [kind |-> "none", sub |-> 0, over |-> -1]
PreOf(o, p, q) ==
    IF p = <<>> THEN NoPre
    ELSE [kind |-> KindAt(o, p), sub |-> Cardinality(Descendants(o, p)),
          over |-> IF Exists(o, q) THEN StatOf(o, o.tree[q]).len ELSE -1]
Record(op, p, q, h, arg, pre, res) ==
    [op |-> op, p |-> p, q |-> q, h |-> h, arg |-> arg, pre |-> pre, res |-> res]
Logged(op, p, q, h, arg, pre, res) ==
    /\ last' = Record(op, p, q, h, arg, pre, res)
    /\ calls' = IF calls < MaxCalls THEN calls + 1 ELSE calls

\* A call on paths (h = 0), on the File in descriptor h, on the ReadDir of
\* stream h or on the DirEntry the program holds in slot h.
Step(r, op, p, q, h, arg) ==
    /\ WithinBounds(r.os)
    /\ os' = r.os
    /\ hist' = HistKeep(r.os)
    /\ Logged(op, p, q, h, arg, PreOf(os, p, q), r.res)

\* A call that touches neither the filesystem nor a descriptor: a builder
\* setter (returns &mut Self), an accessor (its value is recorded as Ok).
Setter(op, h, arg, res) ==
    /\ Logged(op, <<>>, <<>>, h, arg, NoPre, res)
    /\ UNCHANGED <<os, hist>>

\* An empty working directory on a filesystem of the given type (and, on
\* ext4, listing order), no descriptor open, in a process with the given
\* umask and descriptor limit.
FreshOs(fsys, umask, nofile) ==
    [tree |-> [p \in {} |-> 0], inodes |-> [i \in {} |-> 0],
     fds |-> [h \in 1..MaxHandles |-> Closed],
     dirs |-> [d \in 1..MaxIters |-> Closed],
     fstype |-> fsys.fstype, order |-> fsys.order, umask |-> umask, nofile |-> nofile]

Umasks == {0, 18}            \* none, 0o022 (the usual default)
EmptyOs(fsys) == FreshOs(fsys, 18, DefaultNoFile)

Perms(S) == {s \in [1..Cardinality(S) -> S] : \A i, j \in DOMAIN s : i # j => s[i] # s[j]}
NameOrders == Perms(Names)
Ext4(order) == [fstype |-> "ext4", order |-> order]
Tmpfs == [fstype |-> "tmpfs", order |-> <<>>]
OneExt4 == Ext4(CHOOSE order \in NameOrders : TRUE)
Filesystems == {Ext4(order) : order \in NameOrders} \cup {Tmpfs}

\* A program that holds no DirEntry and has listed nothing yet.
Quiet(o) == [os |-> o, ents |-> NoEnts, hist |-> NoHists]

InitWith(worlds) ==
    /\ \E w \in worlds : os = w.os /\ ents = w.ents /\ hist = w.hist
    /\ opts = FS_new_openopts
    /\ dirb = FS_new_dirbuilder
    /\ last = Record("init", <<>>, <<>>, 0, NoArg, NoPre, Ok(Unit))
    /\ calls = 0

\* ---- FS
FsMetadata(p) ==
    /\ Step(FS_metadata(os, p), "metadata", p, <<>>, 0, NoArg)
    /\ UNCHANGED <<opts, dirb, ents>>

FsReadDir(p) ==
    /\ Step(FS_read_dir(os, p), "read_dir", p, <<>>, 0, NoArg)
    /\ UNCHANGED <<opts, dirb, ents>>

FsRename(from, to) ==
    /\ Step(FS_rename(os, from, to), "rename", from, to, 0, NoArg)
    /\ UNCHANGED <<opts, dirb, ents>>

FsRemoveDir(p) ==
    /\ Step(FS_remove_dir(os, p), "remove_dir", p, <<>>, 0, NoArg)
    /\ UNCHANGED <<opts, dirb, ents>>

FsRemoveDirAll(p) ==
    /\ Step(FS_remove_dir_all(os, p), "remove_dir_all", p, <<>>, 0, NoArg)
    /\ UNCHANGED <<opts, dirb, ents>>

FsRemoveFile(p) ==
    /\ Step(FS_remove_file(os, p), "remove_file", p, <<>>, 0, NoArg)
    /\ UNCHANGED <<opts, dirb, ents>>

FsNewDirBuilder ==
    /\ dirb' = FS_new_dirbuilder
    /\ Setter("new_dirbuilder", 0, NoArg, Ok(Unit))
    /\ UNCHANGED <<opts, ents>>

FsNewOpenOpts ==
    /\ opts' = FS_new_openopts
    /\ Setter("new_openopts", 0, NoArg, Ok(Unit))
    /\ UNCHANGED <<dirb, ents>>

\* ---- DirBuilder
DirBuilderRecursive(b) ==
    /\ dirb' = DirBuilder_recursive(dirb, b)
    /\ Setter("recursive", 0, [b |-> b], Ok(Unit))
    /\ UNCHANGED <<opts, ents>>

DirBuilderMode(m) ==
    /\ dirb' = DirBuilder_mode(dirb, m)
    /\ Setter("dir_mode", 0, [m |-> m], Ok(Unit))
    /\ UNCHANGED <<opts, ents>>

DirBuilderCreate(p) ==
    /\ Step(DirBuilder_create(dirb, os, p), "create", p, <<>>, 0, NoArg)
    /\ UNCHANGED <<opts, dirb, ents>>

\* ---- OpenOptions
OptsRead(b) ==
    /\ opts' = OpenOptions_read(opts, b)
    /\ Setter("read", 0, [b |-> b], Ok(Unit))
    /\ UNCHANGED <<dirb, ents>>
OptsWrite(b) ==
    /\ opts' = OpenOptions_write(opts, b)
    /\ Setter("write", 0, [b |-> b], Ok(Unit))
    /\ UNCHANGED <<dirb, ents>>
OptsAppend(b) ==
    /\ opts' = OpenOptions_append(opts, b)
    /\ Setter("append", 0, [b |-> b], Ok(Unit))
    /\ UNCHANGED <<dirb, ents>>
OptsTruncate(b) ==
    /\ opts' = OpenOptions_truncate(opts, b)
    /\ Setter("truncate", 0, [b |-> b], Ok(Unit))
    /\ UNCHANGED <<dirb, ents>>
OptsCreate(b) ==
    /\ opts' = OpenOptions_create(opts, b)
    /\ Setter("opt_create", 0, [b |-> b], Ok(Unit))
    /\ UNCHANGED <<dirb, ents>>
OptsCreateNew(b) ==
    /\ opts' = OpenOptions_create_new(opts, b)
    /\ Setter("create_new", 0, [b |-> b], Ok(Unit))
    /\ UNCHANGED <<dirb, ents>>
OptsMode(m) ==
    /\ opts' = OpenOptions_mode(opts, m)
    /\ Setter("mode", 0, [m |-> m], Ok(Unit))
    /\ UNCHANGED <<dirb, ents>>

\* open(&self, path): the File it returns is kept.
OptsOpen(p) ==
    /\ Step(OpenOptions_open(opts, os, p), "open", p, <<>>, 0, NoArg)
    /\ UNCHANGED <<opts, dirb, ents>>

\* ---- File
OpenFiles == {h \in DOMAIN os.fds : os.fds[h].open}

FileMetadata(h) ==
    /\ Step(File_metadata(FileOf(h), os), "file_metadata", <<>>, <<>>, h, NoArg)
    /\ UNCHANGED <<opts, dirb, ents>>

FileRead(h, n) ==
    /\ Step(File_read(FileOf(h), os, n), "file_read", <<>>, <<>>, h, [n |-> n])
    /\ UNCHANGED <<opts, dirb, ents>>

FileWrite(h, buf) ==
    /\ Step(File_write(FileOf(h), os, buf), "file_write", <<>>, <<>>, h, [buf |-> buf])
    /\ UNCHANGED <<opts, dirb, ents>>

FileFlush(h) ==
    /\ Step(File_flush(FileOf(h), os), "file_flush", <<>>, <<>>, h, NoArg)
    /\ UNCHANGED <<opts, dirb, ents>>

FileSeek(h, whence, off) ==
    /\ Step(File_seek(FileOf(h), os, whence, off), "file_seek", <<>>, <<>>, h,
            [whence |-> whence, off |-> off])
    /\ UNCHANGED <<opts, dirb, ents>>

FileDrop(h) ==
    /\ Step([os |-> File_drop(FileOf(h), os), res |-> Ok(Unit)],
            "file_drop", <<>>, <<>>, h, NoArg)
    /\ UNCHANGED <<opts, dirb, ents>>

WriteBufs == UNION {[1..n -> {1}] : n \in 0..MaxFileLen}
Whences == {"Start", "Current", "End"}

\* ---- ReadDir
\* The streams whose ReadDir the program still holds.
OpenDirs == {d \in DOMAIN os.dirs : os.dirs[d].open /\ os.dirs[d].iter}

\* next(): a DirEntry it yields is kept, in a slot of ents.
ReadDirNext(d) ==
    /\ LET r == ReadDir_next(ReadDirOf(d), os)
           got == r.res.some /\ r.res.item.ok
       IN  /\ os' = r.os
           /\ ents' = IF got
                      THEN Place(ents, NextSlot(ents),
                                 [open |-> TRUE, ent |-> r.res.item.val])
                      ELSE ents
           /\ DOMAIN ents' = 1..MaxHeld
           /\ hist' = IF ~hist[d].clean THEN hist
                      ELSE [hist EXCEPT
                              ![d].yielded =
                                  IF got THEN Append(@, DirEntry_file_name(r.res.item.val))
                                  ELSE @,
                              ![d].done = ~r.res.some]
           /\ Logged("next", <<>>, <<>>, d, NoArg, NoPre, r.res)
    /\ UNCHANGED <<opts, dirb>>

ReadDirDrop(d) ==
    /\ Step([os |-> ReadDir_drop(ReadDirOf(d), os), res |-> Ok(Unit)],
            "read_dir_drop", <<>>, <<>>, d, NoArg)
    /\ UNCHANGED <<opts, dirb, ents>>

\* ---- DirEntry
\* The slots of ents that hold a DirEntry: the program may use and drop each
\* of them whether or not it still holds the ReadDir that yielded it.
HeldEntries == {k \in DOMAIN ents : ents[k].open}

DirEntryFileName(k) ==
    /\ Setter("entry_file_name", k, NoArg, Ok([name |-> DirEntry_file_name(ents[k].ent)]))
    /\ UNCHANGED <<opts, dirb, ents>>

DirEntryPath(k) ==
    /\ Setter("entry_path", k, NoArg, Ok([path |-> DirEntry_path(ents[k].ent, os)]))
    /\ UNCHANGED <<opts, dirb, ents>>

DirEntryMetadata(k) ==
    /\ Step(DirEntry_metadata(ents[k].ent, os), "entry_metadata", <<>>, <<>>, k, NoArg)
    /\ UNCHANGED <<opts, dirb, ents>>

DirEntryDrop(k) ==
    /\ Step([os |-> DirEntry_drop(ents[k].ent, os), res |-> Ok(Unit)],
            "entry_drop", <<>>, <<>>, k, NoArg)
    /\ ents' = [ents EXCEPT ![k] = Closed]
    /\ UNCHANGED <<opts, dirb>>

\* ---- Metadata
\* The Metadata values a call can return within the bounds; a program may hold
\* any of them for as long as it likes.
FilePerms == {ClearBits(m, u) : m \in Modes, u \in Umasks}
DirPerms == {ClearBits(m, u) : m \in DirModes, u \in Umasks}
DirSizes == {0, DirBlock} \cup {(2 + n) * BOGO_DIRENT_SIZE : n \in 0..Cardinality(Names)}
Metadatas ==
    {[f0 |-> Stat("file", n, pm)] : n \in 0..MaxFileLen, pm \in FilePerms}
        \cup {[f0 |-> Stat("dir", n, pm)] : n \in DirSizes, pm \in DirPerms}

MetadataIsDir(m) ==
    /\ Setter("is_dir", 0, [m |-> m], Ok([b |-> Metadata_is_dir(m)]))
    /\ UNCHANGED <<opts, dirb, ents>>

MetadataIsFile(m) ==
    /\ Setter("is_file", 0, [m |-> m], Ok([b |-> Metadata_is_file(m)]))
    /\ UNCHANGED <<opts, dirb, ents>>

MetadataLen(m) ==
    /\ Setter("len", 0, [m |-> m], Ok([n |-> Metadata_len(m)]))
    /\ UNCHANGED <<opts, dirb, ents>>

MetadataPermissions(m) ==
    /\ Setter("permissions", 0, [m |-> m], Ok([mode |-> Metadata_permissions(m)]))
    /\ UNCHANGED <<opts, dirb, ents>>

\* ---- statements of several calls
\* fs.new_openopts().write(true).create_new(true).open(p), the File dropped
\* at the end of the statement.
CreateNewOpts == OpenOptions_create_new(OpenOptions_write(FS_new_openopts, TRUE), TRUE)

CreateNewFile(p) ==
    /\ LET r == OpenOptions_open(CreateNewOpts, os, p)
       IN  Step([os |-> IF r.res.ok THEN File_drop(r.res.val, r.os) ELSE r.os,
                 res |-> IF r.res.ok THEN Ok(Unit) ELSE r.res],
                "create_new_file", p, <<>>, 0, NoArg)
    /\ UNCHANGED <<opts, dirb, ents>>

\* fs.new_openopts().write(true).create(true).truncate(true).open(p)?.write(buf),
\* the File dropped at the end of the statement.
PutOpts ==
    OpenOptions_truncate(OpenOptions_create(OpenOptions_write(FS_new_openopts, TRUE), TRUE),
                         TRUE)

PutFile(p, buf) ==
    /\ LET r == OpenOptions_open(PutOpts, os, p)
           w == File_write(r.res.val, r.os, buf)
       IN  Step([os |-> IF r.res.ok THEN File_drop(r.res.val, w.os) ELSE r.os,
                 res |-> IF r.res.ok THEN w.res ELSE r.res],
                "put_file", p, <<>>, 0, [buf |-> buf])
    /\ UNCHANGED <<opts, dirb, ents>>

\* ---------------------------------------------------------------- directories
\* An empty working directory.
InitDir == InitWith({Quiet(EmptyOs(OneExt4))})

NextDir ==
    \/ \E p \in Paths : FsMetadata(p)
    \/ \E p, q \in Paths : FsRename(p, q)
    \/ \E p \in Paths : FsRemoveDir(p)
    \/ \E p \in Paths : FsRemoveDirAll(p)
    \/ \E p \in Paths : FsRemoveFile(p)
    \/ FsNewDirBuilder
    \/ \E b \in BOOLEAN : DirBuilderRecursive(b)
    \/ \E p \in Paths : DirBuilderCreate(p)
    \/ \E p \in Paths : CreateNewFile(p)

SpecDir == InitDir /\ [][NextDir]_vars

\* ---------------------------------------------------------------- renames
\* An empty working directory, on ext4 or on tmpfs; the program makes
\* directories, writes files of different lengths, and renames.
InitRename == InitWith({Quiet(EmptyOs(fsys)) : fsys \in {OneExt4, Tmpfs}})

NextRename ==
    \/ \E p \in Paths : DirBuilderCreate(p)
    \/ \E p \in Paths, buf \in WriteBufs : PutFile(p, buf)
    \/ \E p, q \in Paths : FsRename(p, q)

SpecRename == InitRename /\ [][NextRename]_vars

\* ---------------------------------------------------------------- files
\* Builders as a program configures them in one chained expression.
ReadOnlyOpts == OpenOptions_read(FS_new_openopts, TRUE)
WriteOnlyOpts == OpenOptions_write(FS_new_openopts, TRUE)
ReadWriteOpts == OpenOptions_write(ReadOnlyOpts, TRUE)
WriteTruncateOpts == OpenOptions_truncate(WriteOnlyOpts, TRUE)
ReadAppendOpts == OpenOptions_append(ReadOnlyOpts, TRUE)
OpenConfigs ==
    {ReadOnlyOpts, WriteOnlyOpts, ReadWriteOpts, WriteTruncateOpts, ReadAppendOpts}

\* fs.new_openopts().<setters>.open(p): the builder is a temporary, the File
\* is kept.
OpenWith(cfg, p) ==
    /\ Step(OpenOptions_open(cfg, os, p), "open", p, <<>>, 0, [opts |-> cfg.f0])
    /\ UNCHANGED <<opts, dirb, ents>>

\* The working directory holds a directory, a, and an empty file, b.
SeedOs(fsys) ==
    LET o1 == DirBuilder_create(FS_new_dirbuilder, EmptyOs(fsys), <<"a">>).os
        r == OpenOptions_open(CreateNewOpts, o1, <<"b">>)
    IN  File_drop(r.res.val, r.os)
InitSeeded == InitWith({Quiet(SeedOs(OneExt4))})

NextFile ==
    \/ \E cfg \in OpenConfigs, p \in Paths : OpenWith(cfg, p)
    \/ \E h \in OpenFiles : FileMetadata(h)
    \/ \E h \in OpenFiles, n \in 0..MaxFileLen : FileRead(h, n)
    \/ \E h \in OpenFiles, buf \in WriteBufs : FileWrite(h, buf)
    \/ \E h \in OpenFiles : FileFlush(h)
    \/ \E h \in OpenFiles, w \in Whences, off \in (-1)..MaxFileLen : FileSeek(h, w, off)
    \/ \E h \in OpenFiles : FileDrop(h)
    \/ \E p \in Paths : FsMetadata(p)
    \/ \E p \in Paths : FsRemoveFile(p)

SpecFile == InitSeeded /\ [][NextFile]_vars

\* ---------------------------------------------------------------- one builder, many opens
\* let _ = opts.open(p): the builder is kept, the File dropped at once.
OptsOpenDrop(p) ==
    /\ LET r == OpenOptions_open(opts, os, p)
       IN  Step([os |-> IF r.res.ok THEN File_drop(r.res.val, r.os) ELSE r.os,
                 res |-> IF r.res.ok THEN Ok(Unit) ELSE r.res],
                "open_drop", p, <<>>, 0, NoArg)
    /\ UNCHANGED <<opts, dirb, ents>>

NextOpts ==
    \/ FsNewOpenOpts
    \/ \E b \in BOOLEAN : OptsRead(b)
    \/ \E b \in BOOLEAN : OptsWrite(b)
    \/ \E b \in BOOLEAN : OptsAppend(b)
    \/ \E b \in BOOLEAN : OptsTruncate(b)
    \/ \E b \in BOOLEAN : OptsCreate(b)
    \/ \E b \in BOOLEAN : OptsCreateNew(b)
    \/ \E m \in Modes : OptsMode(m)
    \/ \E p \in Paths : OptsOpenDrop(p)
    \/ \E p \in Paths : FsRemoveFile(p)

SpecOpts == InitSeeded /\ [][NextOpts]_vars

\* ---------------------------------------------------------------- listings
\* The working directory holds one directory, a, on ext4 (names listed in
\* either order) or on tmpfs.
ListOs(fsys) == DirBuilder_create(FS_new_dirbuilder, EmptyOs(fsys), <<"a">>).os
InitList == InitWith({Quiet(ListOs(fsys)) : fsys \in Filesystems})

\* The entries of the directory a.
Below == {p \in Paths : Len(p) = 2}

NextList ==
    \/ \E p \in Below : CreateNewFile(p)
    \/ \E p \in Below : FsRemoveFile(p)
    \/ \E p \in Paths \ Below : FsReadDir(p)
    \/ \E d \in OpenDirs : ReadDirNext(d)
    \/ \E d \in OpenDirs : ReadDirDrop(d)
    \/ \E k \in HeldEntries : DirEntryFileName(k)
    \/ \E k \in HeldEntries : DirEntryDrop(k)

SpecList == InitList /\ [][NextList]_vars

\* ---------------------------------------------------------------- every call
\* A filesystem in use: directory a holds file a/a, which descriptor 1 has
\* just created and written one byte to; a listing of a has been opened.
BusyOs(o0) ==
    LET o1 == DirBuilder_create(FS_new_dirbuilder, o0, <<"a">>).os
        r2 == OpenOptions_open(CreateNewOpts, o1, <<"a", "a">>)
        o3 == File_write(r2.res.val, r2.os, <<1>>).os
    IN  FS_read_dir(o3, <<"a">>).os

\* The same, the listing advanced once and the DirEntry it yielded kept.
Listed(o0) ==
    LET r == ReadDir_next(ReadDirOf(1), BusyOs(o0))
        e == r.res.item.val
    IN  [os |-> r.os,
         ents |-> [NoEnts EXCEPT ![1] = [open |-> TRUE, ent |-> e]],
         hist |-> [NoHists EXCEPT ![1].yielded = <<DirEntry_file_name(e)>>]]

Init ==
    LET fresh == {FreshOs(fsys, u, n) : fsys \in Filesystems, u \in Umasks,
                                        n \in {MaxHandles, DefaultNoFile}}
    IN  InitWith({Quiet(o0) : o0 \in fresh}
                     \cup {Quiet(BusyOs(o0)) : o0 \in fresh}
                     \cup {Listed(o0) : o0 \in fresh})

\* A run makes at most MaxCalls calls.
Budget == calls < MaxCalls

Next ==
    \/ \E p \in Paths : Budget /\ FsMetadata(p)
    \/ \E p \in Paths : Budget /\ FsReadDir(p)
    \/ \E p, q \in Paths : Budget /\ FsRename(p, q)
    \/ \E p \in Paths : Budget /\ FsRemoveDir(p)
    \/ \E p \in Paths : Budget /\ FsRemoveDirAll(p)
    \/ \E p \in Paths : Budget /\ FsRemoveFile(p)
    \/ Budget /\ FsNewOpenOpts
    \/ Budget /\ FsNewDirBuilder
    \/ \E b \in BOOLEAN : Budget /\ OptsRead(b)
    \/ \E b \in BOOLEAN : Budget /\ OptsWrite(b)
    \/ \E b \in BOOLEAN : Budget /\ OptsAppend(b)
    \/ \E b \in BOOLEAN : Budget /\ OptsTruncate(b)
    \/ \E b \in BOOLEAN : Budget /\ OptsCreate(b)
    \/ \E b \in BOOLEAN : Budget /\ OptsCreateNew(b)
    \/ \E m \in Modes : Budget /\ OptsMode(m)
    \/ \E p \in Paths : Budget /\ OptsOpen(p)
    \/ \E h \in OpenFiles : Budget /\ FileMetadata(h)
    \/ \E h \in OpenFiles, n \in 0..MaxFileLen : Budget /\ FileRead(h, n)
    \/ \E h \in OpenFiles, buf \in WriteBufs : Budget /\ FileWrite(h, buf)
    \/ \E h \in OpenFiles : Budget /\ FileFlush(h)
    \/ \E h \in OpenFiles, w \in Whences, off \in (-1)..MaxFileLen : Budget /\ FileSeek(h, w, off)
    \/ \E h \in OpenFiles : Budget /\ FileDrop(h)
    \/ \E b \in BOOLEAN : Budget /\ DirBuilderRecursive(b)
    \/ \E m \in DirModes : Budget /\ DirBuilderMode(m)
    \/ \E p \in Paths : Budget /\ DirBuilderCreate(p)
    \/ \E d \in OpenDirs : Budget /\ ReadDirNext(d)
    \/ \E d \in OpenDirs : Budget /\ ReadDirDrop(d)
    \/ \E k \in HeldEntries : Budget /\ DirEntryFileName(k)
    \/ \E k \in HeldEntries : Budget /\ DirEntryPath(k)
    \/ \E k \in HeldEntries : Budget /\ DirEntryMetadata(k)
    \/ \E k \in HeldEntries : Budget /\ DirEntryDrop(k)
    \/ \E m \in Metadatas : Budget /\ MetadataIsDir(m)
    \/ \E m \in Metadatas : Budget /\ MetadataIsFile(m)
    \/ \E m \in Metadatas : Budget /\ MetadataLen(m)
    \/ \E m \in Metadatas : Budget /\ MetadataPermissions(m)

\* Runs of at most MaxCalls calls from each starting point.
Spec == Init /\ [][Next]_vars

\* ================================================================ claims (SpecDir)
Ancestors(p) == {Prefix(p, i) : i \in 1..(Len(p) - 1)}
Prefixes(p) == {Prefix(p, i) : i \in 1..Len(p)}
SameStat(m1, m2) ==
    /\ Metadata_is_dir(m1) = Metadata_is_dir(m2)
    /\ Metadata_is_file(m1) = Metadata_is_file(m2)
    /\ Metadata_len(m1) = Metadata_len(m2)

\* A step that is the call `op`: every action records its own name in last.
Called(op) == last'.op = op /\ vars' # vars

\* C1: new_openopts().write(true).create_new(true).open(P) fails with
\* AlreadyExists and changes nothing when an entry exists at P; when none
\* exists and P's parent directory does, it succeeds and metadata(P) succeeds
\* afterwards.
C1_CreateNewExclusive ==
    [][Called("create_new_file") =>
          LET p == last'.p
          IN  /\ Exists(os, p) => last'.res = Err("AlreadyExists") /\ os' = os
              /\ (~Exists(os, p) /\ IsDirAt(os, Parent(p))) =>
                    /\ last'.res.ok
                    /\ FS_metadata(os', p).res.ok
                    /\ Metadata_is_file(FS_metadata(os', p).res.val)]_vars

\* A file has just been created, exclusively, inside a directory.
C1_Witness ==
    /\ last.op = "create_new_file" /\ last.res.ok
    /\ Len(last.p) = 2 /\ IsFileAt(os, last.p)

\* C2 as stated: whenever rename(A, B) succeeds (A = B included), metadata(A)
\* then fails with NotFound and metadata(B) reports what A had.
C2_RenameAsStated ==
    [][(Called("rename") /\ last'.res.ok) =>
          LET a == last'.p
              b == last'.q
          IN  /\ FS_metadata(os', a).res = Err("NotFound")
              /\ FS_metadata(os', b).res.ok
              /\ SameStat(FS_metadata(os', b).res.val, FS_metadata(os, a).res.val)]_vars

\* C2 amended: whenever rename(A, B) succeeds, metadata(B) succeeds and
\* reports the is_dir/is_file/len A had (not what an entry already at B had);
\* metadata(A) then fails with NotFound when A and B are different paths.
\* rename(A, A) on an existing A succeeds, changes nothing, and metadata(A)
\* still succeeds.
C2_RenameMoves ==
    [][Called("rename") =>
          LET a == last'.p
              b == last'.q
          IN  /\ last'.res.ok =>
                    /\ FS_metadata(os', b).res.ok
                    /\ SameStat(FS_metadata(os', b).res.val, FS_metadata(os, a).res.val)
                    /\ a # b => FS_metadata(os', a).res = Err("NotFound")
              /\ (a = b /\ Exists(os, a)) =>
                    /\ last'.res.ok
                    /\ os' = os
                    /\ FS_metadata(os', a).res.ok]_vars

\* A rename has just put A in the place of an entry that was at B and had
\* another length: A is gone, and B reports the length A had.
C2_Witness ==
    /\ last.op = "rename" /\ last.res.ok /\ last.p # last.q
    /\ last.pre.over >= 0
    /\ ~Exists(os, last.p) /\ Exists(os, last.q)
    /\ Metadata_len(FS_metadata(os, last.q).res.val) # last.pre.over

\* C3: for a directory D, remove_file(D) fails and changes nothing; for a
\* non-empty D, remove_dir(D) fails and changes nothing, while
\* remove_dir_all(D) succeeds and leaves metadata of D and of everything that
\* was below it failing with NotFound.
C3_RemoveDistinction ==
    [][LET d == last'.p
       IN  /\ (Called("remove_file") /\ IsDirAt(os, d)) =>
                 ~last'.res.ok /\ os' = os
           /\ (Called("remove_dir") /\ IsDirAt(os, d) /\ Children(os, d) # {}) =>
                 ~last'.res.ok /\ os' = os
           /\ (Called("remove_dir_all") /\ IsDirAt(os, d) /\ Children(os, d) # {}) =>
                 /\ last'.res.ok
                 /\ \A q \in {d} \cup Descendants(os, d) :
                        FS_metadata(os', q).res = Err("NotFound")]_vars

\* remove_dir_all has just removed a directory with two entries below it.
C3_Witness ==
    /\ last.op = "remove_dir_all" /\ last.res.ok
    /\ last.pre.kind = "dir" /\ last.pre.sub >= 2
    /\ ~Exists(os, last.p)

Blocked(o, p) == \E q \in Prefixes(p) : IsFileAt(o, q)

C5_NonRecursiveAsStated ==
    [][(Called("create") /\ ~dirb.f0.recursive) =>
          LET p == last'.p
          IN  /\ Exists(os, p) => last'.res = Err("AlreadyExists") /\ os' = os
              /\ (\E q \in Ancestors(p) : ~Exists(os, q)) =>
                    last'.res = Err("NotFound") /\ os' = os]_vars

\* C5 amended: non-recursive create(P) fails with AlreadyExists when P
\* exists; when an ancestor of P is missing it fails with NotFound provided
\* every ancestor that does exist is a directory (with NotADirectory when one
\* of them is not); in each case nothing is created or changed.
C5_NonRecursiveCreate ==
    [][(Called("create") /\ ~dirb.f0.recursive) =>
          LET p == last'.p
          IN  /\ Exists(os, p) => last'.res = Err("AlreadyExists") /\ os' = os
              /\ (\E q \in Ancestors(p) : ~Exists(os, q)) =>
                    /\ os' = os
                    /\ last'.res = IF \E q \in Ancestors(p) : IsFileAt(os, q)
                                   THEN Err("NotADirectory") ELSE Err("NotFound")]_vars

\* A non-recursive create has just failed with NotFound: the parent of P is
\* missing below an existing directory.
C5_Witness ==
    /\ last.op = "create" /\ ~dirb.f0.recursive
    /\ last.res = Err("NotFound") /\ Len(last.p) = 3
    /\ Exists(os, Prefix(last.p, 1)) /\ ~Exists(os, Prefix(last.p, 2))

\* ================================================================ claims (SpecFile)
\* C7: a File's metadata() reports the is_dir/is_file/len that FS::metadata
\* reports for the path the file is at, and always the file's current length,
\* whichever descriptor wrote it.
C7_MetadataRoundTrip ==
    \A h \in OpenFiles :
        LET fm == File_metadata(FileOf(h), os).res
            node == os.inodes[os.fds[h].ino]
        IN  /\ fm.ok
            /\ Metadata_is_file(fm.val) = (node.kind = "file")
            /\ Metadata_is_file(fm.val) => Metadata_len(fm.val) = Len(node.data)
            /\ \A p \in Paths :
                  (Exists(os, p) /\ os.tree[p] = os.fds[h].ino) =>
                      /\ FS_metadata(os, p).res.ok
                      /\ SameStat(fm.val, FS_metadata(os, p).res.val)

\* Two descriptors on the file at b, which has grown since they were opened.
C7_Witness ==
    /\ last.op = "file_metadata" /\ last.res.ok
    /\ Exists(os, <<"b">>)
    /\ \A h \in DOMAIN os.fds : os.fds[h].open /\ os.fds[h].ino = os.tree[<<"b">>]
    /\ ~os.fds[last.h].w
    /\ Metadata_len(last.res.val) = MaxFileLen
    /\ Metadata_len(FS_metadata(os, <<"b">>).res.val) = MaxFileLen

\* C10: File::flush returns Ok(()) and changes nothing: not the file, not the
\* descriptor's offset, not anything else.
C10_FlushNoOp ==
    [][Called("file_flush") =>
          /\ last'.res = Ok(Unit)
          /\ os' = os
          /\ opts' = opts /\ dirb' = dirb /\ ents' = ents /\ hist' = hist]_vars

\* A flush through a writable descriptor that has written the file full.
C10_Witness ==
    /\ last.op = "file_flush" /\ last.res.ok
    /\ os.fds[last.h].w /\ os.fds[last.h].pos > 0
    /\ Len(os.inodes[os.fds[last.h].ino].data) = MaxFileLen

\* ================================================================ claims (SpecOpts)
SetterOf(op, self, arg) ==
    CASE op = "read" -> OpenOptions_read(self, arg.b)
      [] op = "write" -> OpenOptions_write(self, arg.b)
      [] op = "append" -> OpenOptions_append(self, arg.b)
      [] op = "truncate" -> OpenOptions_truncate(self, arg.b)
      [] op = "opt_create" -> OpenOptions_create(self, arg.b)
      [] op = "create_new" -> OpenOptions_create_new(self, arg.b)
      [] op = "mode" -> OpenOptions_mode(self, arg.m)
FieldOf(op) ==
    CASE op = "read" -> "read" [] op = "write" -> "write" [] op = "append" -> "append"
      [] op = "truncate" -> "truncate" [] op = "opt_create" -> "create"
      [] op = "create_new" -> "create_new" [] op = "mode" -> "mode"
OptSetters == {"read", "write", "append", "truncate", "opt_create", "create_new", "mode"}

\* C8: open leaves the builder as the setters last set it, so the same open
\* on the same filesystem state behaves the same again; each setter changes
\* its own flag only, and setting a flag twice is the same as setting it once.
C8_BuilderReuse ==
    [][/\ Called("open_drop") =>
             /\ opts' = opts
             /\ LET again == OpenOptions_open(opts', os, last'.p).res
                IN  /\ again.ok = last'.res.ok
                    /\ ~again.ok => again = last'.res
       /\ (last'.op \in OptSetters /\ vars' # vars) =>
             LET want == IF last'.op = "mode" THEN last'.arg.m ELSE last'.arg.b
             IN  /\ opts'.f0[FieldOf(last'.op)] = want
                 /\ \A f \in (DOMAIN opts.f0) \ {FieldOf(last'.op)} :
                        opts'.f0[f] = opts.f0[f]
                 /\ SetterOf(last'.op, opts', last'.arg) = opts'
                 /\ \A p \in Paths :
                        OpenOptions_open(SetterOf(last'.op, opts', last'.arg), os, p)
                            = OpenOptions_open(opts', os, p)]_vars

\* A builder set to write + create + truncate has just opened a path for the
\* second time in a row.
C8_Witness ==
    /\ last.op = "open_drop" /\ last.res.ok
    /\ opts.f0.write /\ opts.f0.create /\ opts.f0.truncate /\ opts.f0.mode = 384
    /\ IsFileAt(os, last.p) /\ last.pre.kind = "file"

\* ================================================================ claims (SpecList)
NamesIn(o, i) == {p[Len(p)] : p \in UNION {Children(o, q) : q \in PathsOfIno(o, i)}}
Complete(d) == os.dirs[d].open /\ hist[d].done /\ hist[d].clean

\* C6: a listing of a directory that was not modified since read_dir, once it
\* has signalled the end, has yielded each entry of the directory exactly once
\* and nothing else; two such listings of the same directory yielded the
\* entries in the same order.
C6_ListingComplete ==
    /\ \A d \in DOMAIN os.dirs : Complete(d) =>
          LET y == hist[d].yielded
          IN  /\ Len(y) = Cardinality(NamesIn(os, os.dirs[d].ino))
              /\ {y[i] : i \in DOMAIN y} = NamesIn(os, os.dirs[d].ino)
              /\ \A i, j \in DOMAIN y : i # j => y[i] # y[j]
    /\ \A d, e \in DOMAIN os.dirs :
          (Complete(d) /\ Complete(e) /\ os.dirs[d].ino = os.dirs[e].ino) =>
              hist[d].yielded = hist[e].yielded

\* Two listings of the same directory of two entries, on tmpfs, have both
\* reached the end; the ReadDir of one has been dropped and a DirEntry it
\* yielded is still held.
C6_Witness ==
    /\ \A d \in DOMAIN os.dirs : Complete(d) /\ Len(hist[d].yielded) = 2
    /\ \A d, e \in DOMAIN os.dirs : os.dirs[d].ino = os.dirs[e].ino
    /\ os.fstype = "tmpfs"
    /\ \E k \in HeldEntries : ~os.dirs[ents[k].ent.f0.dir].iter
    /\ last.op = "next" /\ ~last.res.some

\* ================================================================ claims (Spec)
\* The std::fs call a recorded adapter call forwards to, applied to the state
\* before the call.
NativeCall(l, o, oo, db, es) ==
    CASE l.op = "metadata" -> rs_fs_metadata(o, l.p)
      [] l.op = "read_dir" -> rs_fs_read_dir(o, l.p)
      [] l.op = "rename" -> rs_fs_rename(o, l.p, l.q)
      [] l.op = "remove_dir" -> rs_fs_remove_dir(o, l.p)
      [] l.op = "remove_dir_all" -> rs_fs_remove_dir_all(o, l.p)
      [] l.op = "remove_file" -> rs_fs_remove_file(o, l.p)
      [] l.op = "open" -> rs_OpenOptions_open(oo.f0, o, l.p)
      [] l.op = "create" -> rs_DirBuilder_create(db.f0, o, l.p)
      [] l.op = "file_metadata" -> rs_File_metadata([fd |-> l.h], o)
      [] l.op = "file_read" -> rs_File_read([fd |-> l.h], o, l.arg.n)
      [] l.op = "file_write" -> rs_File_write([fd |-> l.h], o, l.arg.buf)
      [] l.op = "file_flush" -> rs_File_flush([fd |-> l.h], o)
      [] l.op = "file_seek" -> rs_File_seek([fd |-> l.h], o, l.arg.whence, l.arg.off)
      [] l.op = "file_drop" -> [os |-> rs_File_drop([fd |-> l.h], o), res |-> Ok(Unit)]
      [] l.op = "next" -> rs_ReadDir_next([dir |-> l.h], o)
      [] l.op = "read_dir_drop" ->
            [os |-> rs_ReadDir_drop([dir |-> l.h], o), res |-> Ok(Unit)]
      [] l.op = "entry_file_name" ->
            [os |-> o, res |-> Ok([name |-> rs_DirEntry_file_name(es[l.h].ent.f0)])]
      [] l.op = "entry_path" ->
            [os |-> o, res |-> Ok([path |-> rs_DirEntry_path(es[l.h].ent.f0, o)])]
      [] l.op = "entry_metadata" -> rs_DirEntry_metadata(es[l.h].ent.f0, o)
      [] l.op = "entry_drop" ->
            [os |-> rs_DirEntry_drop(es[l.h].ent.f0, o), res |-> Ok(Unit)]
      [] l.op = "is_dir" -> [os |-> o, res |-> Ok([b |-> rs_Metadata_is_dir(l.arg.m.f0)])]
      [] l.op = "is_file" -> [os |-> o, res |-> Ok([b |-> rs_Metadata_is_file(l.arg.m.f0)])]
      [] l.op = "len" -> [os |-> o, res |-> Ok([n |-> rs_Metadata_len(l.arg.m.f0)])]
      [] l.op = "permissions" ->
            [os |-> o,
             res |-> Ok([mode |-> rs_Permissions_mode(rs_Metadata_permissions(l.arg.m.f0))])]
      [] OTHER -> [os |-> o, res |-> Ok(Unit)]

NativeOpts(l, oo) ==
    CASE l.op = "new_openopts" -> rs_OpenOptions_new
      [] l.op = "read" -> rs_OpenOptions_read(oo, l.arg.b)
      [] l.op = "write" -> rs_OpenOptions_write(oo, l.arg.b)
      [] l.op = "append" -> rs_OpenOptions_append(oo, l.arg.b)
      [] l.op = "truncate" -> rs_OpenOptions_truncate(oo, l.arg.b)
      [] l.op = "opt_create" -> rs_OpenOptions_create(oo, l.arg.b)
      [] l.op = "create_new" -> rs_OpenOptions_create_new(oo, l.arg.b)
      [] l.op = "mode" -> rs_OpenOptions_mode(oo, l.arg.m)
      [] OTHER -> oo

NativeDirBuilder(l, db) ==
    CASE l.op = "new_dirbuilder" -> rs_DirBuilder_new
      [] l.op = "recursive" -> rs_DirBuilder_recursive(db, l.arg.b)
      [] l.op = "dir_mode" -> rs_DirBuilder_mode(db, l.arg.m)
      [] OTHER -> db

\* The calls whose success value is a wrapper around the std value.
Wrapping == {"metadata", "read_dir", "open", "file_metadata", "entry_metadata"}

SameResult(op, a, n) ==
    /\ a.ok = n.ok
    /\ ~a.ok => a = n
    /\ a.ok => IF op \in Wrapping THEN a.val = [f0 |-> n.val] ELSE a.val = n.val

SameOutcome(op, a, n) ==
    IF op = "next"
    THEN /\ a.some = n.some
         /\ a.some => SameResult("read_dir", a.item, n.item)
    ELSE SameResult(op, a, n)

\* C9: every adapter call returns what the std::fs call it forwards to returns
\* on the same state (a success wrapped, an error as it is) and leaves the
\* filesystem, the descriptors and the builders as that call leaves them.
C9_Forwarding ==
    [][vars' # vars =>
          LET n == NativeCall(last', os, opts, dirb, ents)
          IN  /\ os' = n.os
              /\ SameOutcome(last'.op, last'.res, n.res)
              /\ opts' = [f0 |-> NativeOpts(last', opts.f0)]
              /\ dirb' = [f0 |-> NativeDirBuilder(last', dirb.f0)]]_vars

\* A std error reaching the caller as it is: the ReadDir was dropped while
\* a DirEntry it yielded is held, so its stream keeps its descriptor, and
\* read_dir fails with EMFILE in a process at its limit.
C9_Witness ==
    /\ last.op = "read_dir" /\ last.res = Err("Uncategorized")
    /\ calls = MaxCalls
    /\ OpenCount(os) = os.nofile
    /\ \E k \in HeldEntries :
           os.dirs[ents[k].ent.f0.dir].open /\ ~os.dirs[ents[k].ent.f0.dir].iter

====
